---- MODULE Spec2Model ----
(***************************************************************************)
(* The put-option hedging engine of hedge-simulator                        *)
(* (src/src/simulation/base_simulator.py) as a state machine.              *)
(*                                                                         *)
(* Dates are whole days counted from the first row of the price matrix;    *)
(* day 0 is a Monday (2023-01-02 in the scenarios of the specification),   *)
(* so weekday(d) = d % 7 with Monday = 0 as in datetime.weekday().         *)
(* Money is kept in hundredths so that relative_strike_price and           *)
(* new_option_trigger, given in percent, stay exact: a strike, the cash    *)
(* balance and current_max_price are stored multiplied by 100.             *)
(***************************************************************************)
EXTENDS Integers, Sequences, FiniteSets, TLC

\* ------------------------------------------------------------- bounds
\* Calendar days covered by the price matrix: 0 .. NumDays - 1.
NumDays == 40
\* The closing price changes on at most MaxMoves rows of the matrix.
MaxMoves == 2
\* Calls of apply_strategy on one simulator object.
MaxRuns == 2
\* Closing prices a row may hold, and the price of the first row.
PriceSet == {80, 100, 120}
StartPrices == {80, 100}

\* A missing value (None for new_option_trigger, NaN in the price matrix).
NONE == 0 - 1
NaN == 0

Ticker == "T"

\* Constructor arguments: relative_strike_price and new_option_trigger in
\* percent (100 is 1.00, 110 is 1.10), maturity_months as given.
Config(rel, mat, trig) ==
    [relative_strike_price |-> rel, maturity_months |-> mat, new_option_trigger |-> trig]

\* A row of portfolio.transactions.
Tx(d, a) == [date |-> d, ticker |-> Ticker, amount |-> a]

\* The configurations the form of pages/Hedging.py can produce
\* (relative strike >= 0.01, maturity >= 1, trigger >= 1.00 or None) ...
FormConfigs == { Config(100, 1, NONE), Config(100, 1, 110) }

\* A strike of twice the price with the form's default factor of 1.00.
DeepStrikeConfigs == { Config(200, 1, 100) }

\* ... and some that only a direct call of the constructor can pass.
MalformedConfigs == { Config(0, 1, NONE), Config(100, 0, NONE), Config(100, 1, 90) }

\* Transaction logs: the first entry is a buy on the first day of the matrix.
OneBuy == << Tx(0, 10) >>
SmallBuy == << Tx(0, 5) >>
TwoBuys == << Tx(0, 10), Tx(2, 1) >>
BuySell == << Tx(0, 10), Tx(3, 0 - 4) >>

\* The runs explored: a configuration and a transaction log.
Scenarios == { <<c, l>> : c \in FormConfigs, l \in { OneBuy, TwoBuys, BuySell } }

MalformedScenarios == { <<c, OneBuy>> : c \in MalformedConfigs }

\* Price moves allowed in a run: the full number for the one-buy log under
\* a configuration of the form, one fewer for every other input.
MoveBudget(config, log) ==
    IF log = OneBuy /\ config \in FormConfigs \cup DeepStrikeConfigs
    THEN MaxMoves ELSE MaxMoves - 1

\* ------------------------------------------------------------- helpers
Max(S) == CHOOSE x \in S : \A y \in S : y <= x
Min(S) == CHOOSE x \in S : \A y \in S : x <= y

\* ------------------------------------------------------------- calendar
weekday(d) == d % 7

\* get_next_friday: weekdays Friday to Sunday count from the week before,
\* so a Friday maps to the Friday seven days later; the result is formatted
\* "%Y-%m-%d" and parsed back by pd.Timestamp, which on whole days gives
\* the same day number.
get_next_friday(dt) ==
    LET day_of_week == IF weekday(dt) >= 4 THEN weekday(dt) - 7 ELSE weekday(dt)
    IN  dt + (4 - day_of_week)

\* int(self.maturity_months * 30.5) for an integer number of months.
MaturityDays(maturity_months) == (maturity_months * 61) \div 2

\* ------------------------------------------------------------- options
\* The price matrix as a sequence: prices[d + 1] is the close of day d, NaN
\* on a day without a quote.
PriceAt(prices, d) == prices[d + 1]

\* Bookkeeping carried by an option dict of the model and no key of the
\* dict: id is the identity of the dict object (its position in
\* put_options), chain the buy transaction whose walk created it, kind the
\* place of the code that created it ("seed", "gap" or "rally").
Tag(opts, chain, kind) == [id |-> Len(opts) + 1, chain |-> chain, kind |-> kind]

\* volatility(read_prices(ticker, tr_date - 366 days, tr_date)): the price
\* history before the portfolio is an input; its volatility is a value
\* that depends on the date alone.
volatility(tr_date) == 1 + (tr_date % 2)

\* BlackScholesModel(S, K, T, r = 0, sigma).put_option_price(), in hundredths
\* per share for a price S in units and a strike K in hundredths: a
\* stand-in with the properties of the formula that matter here, a function
\* of its arguments alone, positive, growing with the strike, the
\* volatility and the maturity.
put_option_price(S, K, maturity_months, sigma) ==
    (IF K > S * 100 THEN K - S * 100 ELSE 0) + S * sigma * maturity_months

\* _get_put_option: the option dict.
_get_put_option(self, tag, price, amount, transaction_date, premium) ==
    LET expire == transaction_date + MaturityDays(self.maturity_months)
    IN  [id |-> tag.id, chain |-> tag.chain, kind |-> tag.kind,
         ticker |-> Ticker,
         date |-> transaction_date,
         expire |-> get_next_friday(expire),
         amount |-> amount,
         premium |-> premium,
         cost |-> amount * premium,
         strike |-> price * self.relative_strike_price]

\* _process_one_transaction: the closing price of the transaction date
\* decides the strike and, with the volatility, the premium.
_process_one_transaction(self, tag, transaction, prices) ==
    LET price == PriceAt(prices, transaction.date)
        vol == volatility(transaction.date)
        premium == put_option_price(price, price * self.relative_strike_price,
                                    self.maturity_months, vol)
    IN  _get_put_option(self, tag, price, transaction.amount, transaction.date, premium)

\* ------------------------------------------------------------- queue
\* queue.PriorityQueue over heapq; its entries are the tuples
\* (option["date"], option).  Python compares two such tuples by the first
\* position where they differ: the dates if they differ; otherwise the
\* dicts, where equal dicts make the tuples equal and unequal dicts raise
\* TypeError ('<' not supported between 'dict' and 'dict').
DictEq(a, b) ==
    /\ a.ticker = b.ticker /\ a.date = b.date /\ a.expire = b.expire
    /\ a.amount = b.amount /\ a.premium = b.premium /\ a.cost = b.cost
    /\ a.strike = b.strike

\* The comparison with the later date first.
TupleLt_later(a, b) ==
    IF a.date # b.date THEN IF a.date > b.date THEN "lt" ELSE "ge"
    ELSE IF DictEq(a, b) THEN "ge" ELSE "TypeError"

TupleLt(a, b) ==
    IF a.date # b.date THEN IF a.date < b.date THEN "lt" ELSE "ge"
    ELSE IF DictEq(a, b) THEN "ge" ELSE "TypeError"

\* heapq._siftdown with 1-based positions: the parent of pos is pos \div 2.
RECURSIVE _siftdown(_, _, _, _)
_siftdown(heap, startpos, pos, newitem) ==
    IF pos > startpos
    THEN LET parentpos == pos \div 2
             c == TupleLt(newitem, heap[parentpos])
         IN  IF c = "TypeError" THEN [heap |-> heap, err |-> "TypeError"]
             ELSE IF c = "lt"
             THEN _siftdown([heap EXCEPT ![pos] = heap[parentpos]], startpos, parentpos, newitem)
             ELSE [heap |-> [heap EXCEPT ![pos] = newitem], err |-> ""]
    ELSE [heap |-> [heap EXCEPT ![pos] = newitem], err |-> ""]

\* heapq._siftup: move the smaller child up until a leaf, then sift the
\* item down from there.
RECURSIVE _siftup(_, _, _, _)
_siftup(heap, startpos, pos, newitem) ==
    LET endpos == Len(heap)
        leftpos == 2 * pos
        rightpos == leftpos + 1
    IN  IF leftpos <= endpos
        THEN LET c == IF rightpos <= endpos
                      THEN TupleLt(heap[leftpos], heap[rightpos]) ELSE "lt"
                 childpos == IF c = "lt" THEN leftpos ELSE rightpos
             IN  IF c = "TypeError" THEN [heap |-> heap, err |-> "TypeError"]
                 ELSE _siftup([heap EXCEPT ![pos] = heap[childpos]], startpos, childpos, newitem)
        ELSE _siftdown(heap, startpos, pos, newitem)

\* PriorityQueue.put: heappush.
put(heap, item) == _siftdown(Append(heap, item), 1, Len(heap) + 1, item)

\* PriorityQueue.get: heappop; on an empty queue the call blocks.
get(heap) ==
    IF heap = <<>> THEN [heap |-> heap, err |-> "blocked", item |-> <<>>]
    ELSE LET lastelt == heap[Len(heap)]
             rest == SubSeq(heap, 1, Len(heap) - 1)
         IN  IF rest = <<>> THEN [heap |-> rest, err |-> "", item |-> <<lastelt>>]
             ELSE LET r == _siftup(rest, 1, 1, lastelt)
                  IN  [heap |-> r.heap, err |-> r.err, item |-> <<rest[1]>>]

\* ------------------------------------------------------------- state
VARIABLES
    args,                \* the arguments OptionsSimulator(...) is called with
    self,                \* the OptionsSimulator object
    transactions,        \* portfolio.transactions
    prices,              \* portfolio.prices[ticker], as far as it has been read
    pc,                  \* position in apply_strategy / get_put_options
    ti,                  \* index of the buy transaction being processed
    rows,                \* index of the local frame prices of get_put_options
    day,                 \* index_date of the row being walked
    all_options,         \* the PriorityQueue's heap
    next_expire_option,
    current_min_expire,
    current_position,
    current_options,
    current_max_price,   \* multiplied by 100
    put_options,
    new_transactions,
    expired,             \* history: <<option id, day, remainder>> of every expiry event
    hedge_portfolio,     \* what apply_strategy returned
    holidays,            \* weekdays without a quote in the price matrix
    returned,            \* history: the result of every finished apply_strategy call
    ledger,              \* input of build_portfolio_from_transactions and Portfolio
    portfolio,           \* the Portfolio object
    perf,                \* what Portfolio.performance returned
    ppc,                 \* position in the life of the Portfolio object
    fit                  \* locals of gpd_risk_estimates_aligned

vars == <<args, self, transactions, prices, pc, ti, rows, day, all_options,
          next_expire_option, current_min_expire, current_position,
          current_options, current_max_price, put_options, new_transactions,
          expired, hedge_portfolio, holidays, returned,
          ledger, portfolio, perf, ppc, fit>>

\* The state of the other two machines, which the hedging engine leaves alone.
aside == <<ledger, portfolio, perf, ppc, fit>>

walk == <<ti, rows, day, all_options, next_expire_option, current_min_expire,
          current_position, current_options, current_max_price, put_options,
          new_transactions, expired>>

NoOption ==
    [id |-> 0, chain |-> 0, kind |-> "none", ticker |-> Ticker, date |-> 0,
     expire |-> 0, amount |-> 0, premium |-> 0, cost |-> 0, strike |-> 0]

NoSimulator ==
    [relative_strike_price |-> 0, maturity_months |-> 0, new_option_trigger |-> NONE,
     cost |-> 0, cash |-> 0, options |-> <<>>]

NoPortfolio == [transactions |-> <<>>, prices |-> <<>>, hedge_cost |-> 0, cash |-> 0]

IsBuy(t) == t.amount > 0
IsSell(t) == t.amount <= 0
\* Only the first buy transaction of the ticker.
buy_transactions_first ==
    IF SelectSeq(transactions, IsBuy) = << >> THEN << >>
    ELSE << SelectSeq(transactions, IsBuy)[1] >>

buy_transactions == SelectSeq(transactions, IsBuy)
\* The sell rows left out of the output.
sell_transactions_none == << >>

sell_transactions == SelectSeq(transactions, IsSell)

\* ------------------------------------------------------------- price matrix
\* A day has a quote when it is neither a weekend day nor a holiday.
HasQuote(d) == weekday(d) < 5 /\ d \notin holidays

\* Rows of portfolio.prices.dropna(): the days with a quote.
Rows == { d \in 0 .. NumDays - 1 : HasQuote(d) }

\* prices.copy().dropna().iloc[1:]: every row but the first.
WalkedRows == Rows \ { Min(Rows) }

\* The quotes read so far, oldest first.
Quotes(ps) == SelectSeq(ps, LAMBDA x : x # NaN)

Moves(ps) ==
    LET q == Quotes(ps)
    IN  Cardinality({ i \in 2 .. Len(q) : q[i] # q[i - 1] })

\* The matrices that agree with ps and also hold day d: the matrix is an
\* input, and the close of a row is drawn when the row is first read.
ReadRow(ps, d) ==
    IF d < Len(ps) THEN { ps }
    ELSE LET q == Quotes(ps)
             gap == [ i \in 1 .. d - Len(ps) |-> NaN ]
             closes == { q[Len(q)] }
                       \cup (IF Moves(ps) < MoveBudget(args, transactions) THEN PriceSet ELSE {})
         IN  { ps \o gap \o << c >> : c \in closes }

\* ------------------------------------------------------------- no object yet
NoLedger == [transactions |-> << >>, market |-> << >>, start_cash |-> NONE,
             baseline |-> FALSE, start_date |-> NONE]
NoBook == [positions |-> << >>, prices |-> << >>, transactions |-> << >>, start_cash |-> NONE,
           capitalisation |-> << >>, returns |-> << >>, hedge_cost |-> 0, cash |-> 0]
NoPerf == [profit |-> 0]
NoFit == [at |-> "none"]

\* Neither a Portfolio nor a tail fit is being worked on.
AsideIdle ==
    /\ ledger = NoLedger
    /\ portfolio = NoBook
    /\ perf = NoPerf
    /\ ppc = "none"
    /\ fit = NoFit

\* ------------------------------------------------------------- construction
Start(scenarios, closures) ==
    /\ \E sc \in scenarios : args = sc[1] /\ transactions = sc[2]
    /\ holidays \in closures
    /\ returned = <<>>
    /\ self = NoSimulator
    /\ prices \in { << p >> : p \in StartPrices }
    /\ pc = "new"
    /\ ti = 0
    /\ rows = {}
    /\ day = 0
    /\ all_options = <<>>
    /\ next_expire_option = NoOption
    /\ current_min_expire = 0
    /\ current_position = 0
    /\ current_options = 0
    /\ current_max_price = 0
    /\ put_options = <<>>
    /\ new_transactions = <<>>
    /\ expired = <<>>
    /\ hedge_portfolio = NoPortfolio

Init == Start(Scenarios, { {} }) /\ AsideIdle

\* The same machine started with any arguments the constructor is given.
InitAnyConfig == Start(Scenarios \cup MalformedScenarios, { {} }) /\ AsideIdle

\* OptionsSimulator.__init__: the arguments are stored as given.
Construct ==
    /\ pc = "new"
    /\ self' = [relative_strike_price |-> args.relative_strike_price,
                maturity_months |-> args.maturity_months,
                new_option_trigger |-> args.new_option_trigger,
                cost |-> 0, cash |-> 0, options |-> <<>>]
    /\ pc' = "idle"
    /\ UNCHANGED <<aside, args, transactions, holidays, prices, hedge_portfolio, returned>>
    /\ UNCHANGED walk

\* ------------------------------------------------------------- get_put_options
\* An exception leaves get_put_options: nothing is returned.
Raise(e) ==
    /\ pc' = e
    /\ UNCHANGED <<prices, hedge_portfolio, returned>>
    /\ UNCHANGED walk

\* The head of "for index_date, current_price in zip(...)" over the rows
\* `index` after the row `after`: the next walked row if there is one; otherwise the next buy
\* transaction of "for _, transaction in buy_transactions.iterrows()", or
\* the end of both loops.
Advance(after, index) ==
    LET later == { d \in index : d > after }
    IN  IF later # {}
        THEN /\ prices' \in ReadRow(prices, Min(later))
             /\ day' = Min(later)
             /\ pc' = "row"
             /\ ti' = ti
        ELSE /\ prices' = prices
             /\ day' = day
             /\ IF ti < Len(buy_transactions)
                THEN pc' = "seed" /\ ti' = ti + 1
                ELSE pc' = "finish" /\ ti' = ti

\* apply_strategy calls get_put_options, which starts with empty outputs.
GetPutOptions ==
    /\ pc = "idle"
    /\ put_options' = <<>>
    /\ new_transactions' = <<>>
    /\ expired' = <<>>
    /\ IF Len(buy_transactions) > 0
       THEN pc' = "seed" /\ ti' = 1
       ELSE pc' = "finish" /\ ti' = 0
    /\ UNCHANGED <<aside, args, self, transactions, holidays, prices, hedge_portfolio, returned,
                   rows, day, all_options,
                   next_expire_option, current_min_expire, current_position,
                   current_options, current_max_price>>

\* Lines 51-62: a fresh queue and the seed option of one buy transaction;
\* the option is put into the empty queue and taken out again at once.
Seed ==
    /\ pc = "seed"
    /\ LET transaction == buy_transactions[ti]
           option == _process_one_transaction(self, Tag(put_options, ti, "seed"), transaction, prices)
           q == get(put(<<>>, option).heap)
       IN  /\ all_options' = q.heap
           /\ put_options' = Append(put_options, option)
           /\ new_transactions' = Append(new_transactions, transaction)
           /\ current_position' = transaction.amount
           /\ current_options' = option.amount
           /\ current_max_price' = PriceAt(prices, transaction.date) * 100
           /\ next_expire_option' = q.item[1]
           /\ current_min_expire' = q.item[1].expire
    /\ rows' = WalkedRows
    /\ Advance(0 - 1, rows')
    /\ UNCHANGED <<aside, args, self, transactions, holidays, hedge_portfolio, returned, expired>>

\* CoverGap that leaves the new option out of current_options.
CoverGap_uncounted(heap, opts, position, options) ==
    LET required_options == position - options
        virtual_buy == Tx(day, required_options)
        option == _process_one_transaction(self, Tag(opts, ti, "gap"), virtual_buy, prices)
        r == put(heap, option)
    IN  IF required_options > 0
        THEN [err |-> r.err, heap |-> r.heap, put_options |-> Append(opts, option),
              current_options |-> options]
        ELSE [err |-> "", heap |-> heap, put_options |-> opts, current_options |-> options]

\* CoverGap that also opens an option when nothing is left to cover.
CoverGap_zero(heap, opts, position, options) ==
    LET required_options == position - options
        virtual_buy == Tx(day, required_options)
        option == _process_one_transaction(self, Tag(opts, ti, "gap"), virtual_buy, prices)
        r == put(heap, option)
    IN  IF required_options >= 0
        THEN [err |-> r.err, heap |-> r.heap, put_options |-> Append(opts, option),
              current_options |-> options + required_options]
        ELSE [err |-> "", heap |-> heap, put_options |-> opts, current_options |-> options]

\* CoverGap with the new option sized to the whole position.
CoverGap_whole(heap, opts, position, options) ==
    LET required_options == position - options
        virtual_buy == Tx(day, position)
        option == _process_one_transaction(self, Tag(opts, ti, "gap"), virtual_buy, prices)
        r == put(heap, option)
    IN  IF required_options > 0
        THEN [err |-> r.err, heap |-> r.heap, put_options |-> Append(opts, option),
              current_options |-> options + position]
        ELSE [err |-> "", heap |-> heap, put_options |-> opts, current_options |-> options]

\* Lines 83-89 and 92-98: a coverage gap opens one option dated index_date.
CoverGap(heap, opts, position, options) ==
    LET required_options == position - options
        virtual_buy == Tx(day, required_options)
        option == _process_one_transaction(self, Tag(opts, ti, "gap"), virtual_buy, prices)
        r == put(heap, option)
    IN  IF required_options > 0
        THEN [err |-> r.err, heap |-> r.heap, put_options |-> Append(opts, option),
              current_options |-> options + required_options]
        ELSE [err |-> "", heap |-> heap, put_options |-> opts, current_options |-> options]

\* Settle with the share count rounded to the nearest integer.
Settle_round(option, current_price) ==
    LET sold_money == option.strike * option.amount
        number_of_new_shares == (2 * sold_money + current_price * 100) \div (2 * current_price * 100)
        addition_shares == number_of_new_shares - option.amount
    IN  [cash |-> sold_money - number_of_new_shares * current_price * 100,
         number_of_new_shares |-> number_of_new_shares,
         addition_shares |-> addition_shares,
         transactions |->
            IF addition_shares > 0
            THEN << Tx(day - 1, option.amount * (0 - 1)), Tx(day, number_of_new_shares) >>
            ELSE << >>,
         added |-> IF addition_shares > 0 THEN addition_shares ELSE 0]

\* Settle with the synthetic sell dated the expiry day.
Settle_sameday(option, current_price) ==
    LET sold_money == option.strike * option.amount
        number_of_new_shares == sold_money \div (current_price * 100)
        addition_shares == number_of_new_shares - option.amount
    IN  [cash |-> sold_money - number_of_new_shares * current_price * 100,
         number_of_new_shares |-> number_of_new_shares,
         addition_shares |-> addition_shares,
         transactions |->
            IF addition_shares > 0
            THEN << Tx(day, option.amount * (0 - 1)), Tx(day, number_of_new_shares) >>
            ELSE << >>,
         added |-> IF addition_shares > 0 THEN addition_shares ELSE 0]

\* Settle with the remainder taken after paying for the extra shares only.
Settle_extra(option, current_price) ==
    LET sold_money == option.strike * option.amount
        number_of_new_shares == sold_money \div (current_price * 100)
        addition_shares == number_of_new_shares - option.amount
    IN  [cash |-> sold_money - addition_shares * current_price * 100,
         number_of_new_shares |-> number_of_new_shares,
         addition_shares |-> addition_shares,
         transactions |->
            IF addition_shares > 0
            THEN << Tx(day - 1, option.amount * (0 - 1)), Tx(day, number_of_new_shares) >>
            ELSE << >>,
         added |-> IF addition_shares > 0 THEN addition_shares ELSE 0]

\* Settle that logs the buy of the new shares without the sell of the old.
Settle_nosell(option, current_price) ==
    LET sold_money == option.strike * option.amount
        number_of_new_shares == sold_money \div (current_price * 100)
        addition_shares == number_of_new_shares - option.amount
    IN  [cash |-> sold_money - number_of_new_shares * current_price * 100,
         number_of_new_shares |-> number_of_new_shares,
         addition_shares |-> addition_shares,
         transactions |->
            IF addition_shares > 0 THEN << Tx(day, number_of_new_shares) >> ELSE << >>,
         added |-> IF addition_shares > 0 THEN addition_shares ELSE 0]

\* Lines 66-82: settlement of an option that expires in the money.
Settle(option, current_price) ==
    LET sold_money == option.strike * option.amount
        number_of_new_shares == sold_money \div (current_price * 100)
        addition_shares == number_of_new_shares - option.amount
    IN  [cash |-> sold_money - number_of_new_shares * current_price * 100,
         number_of_new_shares |-> number_of_new_shares,
         addition_shares |-> addition_shares,
         transactions |->
            IF addition_shares > 0
            THEN << Tx(day - 1, option.amount * (0 - 1)), Tx(day, number_of_new_shares) >>
            ELSE << >>,
         added |-> IF addition_shares > 0 THEN addition_shares ELSE 0]

\* ExpiryEvent with the gap measured before the settlement grows the position.
ExpiryEvent_stale(s) ==
    LET g == CoverGap(all_options, put_options, current_position,
                      current_options - next_expire_option.amount)
        q == get(g.heap)
        err == IF g.err # "" THEN g.err ELSE q.err
    IN  /\ self' = [self EXCEPT !.cash = self.cash + s.cash]
        /\ IF err # ""
           THEN Raise(err)
           ELSE /\ new_transactions' = new_transactions \o s.transactions
                /\ current_position' = current_position + s.added
                /\ current_options' = g.current_options
                /\ put_options' = g.put_options
                /\ all_options' = q.heap
                /\ next_expire_option' = q.item[1]
                /\ current_min_expire' = q.item[1].expire
                /\ expired' = Append(expired, <<next_expire_option.id, day, s.cash>>)
                /\ pc' = "trigger"
                /\ UNCHANGED <<prices, ti, rows, day, current_max_price, hedge_portfolio, returned>>
        /\ UNCHANGED <<aside, args, transactions, holidays>>

\* Lines 64-100 for one expiry event whose settlement is s.
ExpiryEvent(s) ==
    LET g == CoverGap(all_options, put_options, current_position + s.added,
                      current_options - next_expire_option.amount)
        q == get(g.heap)
        err == IF g.err # "" THEN g.err ELSE q.err
    IN  /\ self' = [self EXCEPT !.cash = self.cash + s.cash]
        /\ IF err # ""
           THEN Raise(err)
           ELSE /\ new_transactions' = new_transactions \o s.transactions
                /\ current_position' = current_position + s.added
                /\ current_options' = g.current_options
                /\ put_options' = g.put_options
                /\ all_options' = q.heap
                /\ next_expire_option' = q.item[1]
                /\ current_min_expire' = q.item[1].expire
                /\ expired' = Append(expired, <<next_expire_option.id, day, s.cash>>)
                /\ pc' = "trigger"
                /\ UNCHANGED <<prices, ti, rows, day, current_max_price, hedge_portfolio, returned>>
        /\ UNCHANGED <<aside, args, transactions, holidays>>

NoSettlement == [cash |-> 0, transactions |-> << >>, added |-> 0]

\* Line 65 true: the close is below the strike.
ExpireInTheMoney ==
    /\ pc = "row"
    /\ day = current_min_expire
    /\ PriceAt(prices, day) * 100 < next_expire_option.strike
    /\ ExpiryEvent(Settle(next_expire_option, PriceAt(prices, day)))

\* Line 90: the option expires worthless.
ExpireWorthless ==
    /\ pc = "row"
    /\ day = current_min_expire
    /\ ~ (PriceAt(prices, day) * 100 < next_expire_option.strike)
    /\ ExpiryEvent(NoSettlement)

\* Line 101 is reached after an expiry event or on a row without one.
AtTrigger == pc = "trigger" \/ (pc = "row" /\ day # current_min_expire)

\* Lines 102-103.
Rally(trigger, max_price, current_price) ==
    /\ trigger # NONE
    /\ max_price * trigger < current_price * 10000

\* Line 105: the virtual buy of a rally covers the whole position.
NewOptionBuy(index_date, position) == Tx(index_date, position)

\* NewMaxPrice without the trigger factor.
NewMaxPrice_stale(current_price, trigger) == current_price * 100

\* Line 110: current_max_price = current_price * new_option_trigger.
NewMaxPrice(current_price, trigger) == current_price * trigger

\* Lines 105-113: a rally opens an option on the whole position and
\* re-queues the option that was next to expire.
RallyTrigger ==
    /\ AtTrigger
    /\ Rally(self.new_option_trigger, current_max_price, PriceAt(prices, day))
    /\ LET new_option_buy == NewOptionBuy(day, current_position)
           new_option == _process_one_transaction(self, Tag(put_options, ti, "rally"),
                                                  new_option_buy, prices)
           r1 == put(all_options, new_option)
           r2 == put(r1.heap, next_expire_option)
           q == get(r2.heap)
           err == IF r1.err # "" THEN r1.err ELSE IF r2.err # "" THEN r2.err ELSE q.err
       IN  IF err # ""
           THEN Raise(err)
           ELSE /\ put_options' = Append(put_options, new_option)
                /\ current_options' = current_options + current_position
                /\ current_max_price' = NewMaxPrice(PriceAt(prices, day), self.new_option_trigger)
                /\ all_options' = q.heap
                /\ next_expire_option' = q.item[1]
                /\ current_min_expire' = q.item[1].expire
                /\ Advance(day, rows)
                /\ UNCHANGED <<rows, current_position, new_transactions, expired,
                               hedge_portfolio, returned>>
    /\ UNCHANGED <<aside, args, self, transactions, holidays>>

\* Line 101 false: the row ends.
NoTrigger ==
    /\ AtTrigger
    /\ ~ Rally(self.new_option_trigger, current_max_price, PriceAt(prices, day))
    /\ Advance(day, rows)
    /\ UNCHANGED <<aside, args, self, transactions, holidays, hedge_portfolio, returned, rows, all_options,
                   next_expire_option, current_min_expire, current_position,
                   current_options, current_max_price, put_options,
                   new_transactions, expired>>

\* ------------------------------------------------------------- apply_strategy
\* DataFrame.sort_values("date"): rows in date order, rows of one date in
\* their order of arrival.
RECURSIVE sort_values(_)
sort_values(frame) ==
    IF frame = << >> THEN << >>
    ELSE LET first == Min({ frame[i].date : i \in 1 .. Len(frame) })
         IN  SelectSeq(frame, LAMBDA r : r.date = first)
             \o sort_values(SelectSeq(frame, LAMBDA r : r.date # first))

\* StrikeDates with the expire date inside the window.
StrikeDates_inclusive(option) == option.date .. option.expire

\* The index of the frame _get_put_prices builds for one option:
\* pd.date_range(date, expire - 1 day).
StrikeDates(option) == option.date .. option.expire - 1

\* _get_put_prices: the per-option frames joined on the date, then the
\* maximum of the columns of the ticker on each date.
_get_put_prices(put_transactions) ==
    LET frames == { i \in 1 .. Len(put_transactions) : TRUE }
        index == UNION { StrikeDates(put_transactions[i]) : i \in frames }
    IN  [ d \in index |->
            Max({ put_transactions[i].strike :
                    i \in { j \in frames : d \in StrikeDates(put_transactions[j]) } }) ]

\* Lines 36-37: the rows of portfolio.prices and of the strike frame
\* grouped by date, the maximum of the values present on each date, kept
\* for the dates of portfolio.returns (the rows with a quote).
AdjustedPrices(ps, put_strike_prices) ==
    LET index == (0 .. Len(ps) - 1) \cup DOMAIN put_strike_prices
        values(d) == (IF d < Len(ps) /\ PriceAt(ps, d) # NaN THEN { PriceAt(ps, d) * 100 } ELSE {})
                     \cup (IF d \in DOMAIN put_strike_prices THEN { put_strike_prices[d] } ELSE {})
    IN  [ d \in { x \in index : x < NumDays /\ HasQuote(x) } |-> Max(values(d)) ]

\* puts_options["cost"].sum()
RECURSIVE cost_sum(_)
cost_sum(puts_options) ==
    IF puts_options = << >> THEN 0
    ELSE puts_options[1].cost + cost_sum(Tail(puts_options))

\* Lines 114-117 of get_put_options and lines 33-42 of apply_strategy.
Finish ==
    /\ pc = "finish"
    /\ LET new_transactions_df ==
               IF Len(sell_transactions) > 0
               THEN sort_values(new_transactions \o sell_transactions)
               ELSE new_transactions
           cost == cost_sum(put_options)
       IN  /\ hedge_portfolio' =
                  [transactions |-> new_transactions_df,
                   prices |-> AdjustedPrices(prices, _get_put_prices(put_options)),
                   hedge_cost |-> cost,
                   cash |-> self.cash]
           /\ self' = [self EXCEPT !.cost = cost, !.options = put_options]
    /\ returned' = Append(returned, [portfolio |-> hedge_portfolio', options |-> put_options])
    /\ pc' = "done"
    /\ UNCHANGED <<aside, args, transactions, holidays, prices>>
    /\ UNCHANGED walk

\* apply_strategy is called again on the same simulator object with the
\* same portfolio.
ApplyAgain ==
    /\ pc = "done"
    /\ Len(returned) < MaxRuns
    /\ pc' = "idle"
    /\ UNCHANGED <<aside, args, self, transactions, holidays, prices, hedge_portfolio, returned>>
    /\ UNCHANGED walk

Next ==
    \/ Construct
    \/ GetPutOptions
    \/ Seed
    \/ ExpireInTheMoney
    \/ ExpireWorthless
    \/ RallyTrigger
    \/ NoTrigger
    \/ Finish

Spec == Init /\ [][Next]_vars

SpecAnyConfig == InitAnyConfig /\ [][Next]_vars

\* One simulator object used for several runs on the same portfolio.
RerunScenarios == { <<c, SmallBuy>> : c \in FormConfigs }
InitRerun == Start(RerunScenarios, { {} }) /\ AsideIdle
NextRerun == Next \/ ApplyAgain
SpecRerun == InitRerun /\ [][NextRerun]_vars

\* A price matrix in which a Friday may be a market holiday.
Closures == { {}, { 32 } }
InitHoliday == Start(RerunScenarios, Closures) /\ AsideIdle
SpecHoliday == InitHoliday /\ [][Next]_vars

\* Runs with a strike above the price.
DeepStrikeScenarios ==
    { <<c, OneBuy>> : c \in DeepStrikeConfigs \cup { Config(100, 1, NONE) } }
InitDeepStrike == Start(DeepStrikeScenarios, { {} }) /\ AsideIdle
SpecDeepStrike == InitDeepStrike /\ [][Next]_vars

\* Sell rows of the ticker a source log may hold beside its buys.
SellRows == { << Tx(3, 0 - 4) >>, << Tx(3, 0 - 4), Tx(32, 0 - 1) >> }

\* A second portfolio holds the same buys and also sells; a new simulator
\* with the same arguments is applied to it over the same price matrix.
ApplyWithSells ==
    /\ pc = "done"
    /\ Len(returned) = 1
    /\ sell_transactions = << >>
    /\ \E sells \in SellRows : transactions' = transactions \o sells
    /\ self' = NoSimulator
    /\ pc' = "new"
    /\ UNCHANGED <<aside, args, holidays, prices, hedge_portfolio, returned>>
    /\ UNCHANGED walk

InitSells == Start(RerunScenarios, { {} }) /\ AsideIdle
NextSells == Next \/ ApplyWithSells
SpecSells == InitSells /\ [][NextSells]_vars

\* ------------------------------------------------------------- portfolio
\* The hedging engine is not running.
EngineIdle == Start({ <<Config(100, 1, NONE), OneBuy>> }, { {} }) /\ prices = << 100 >>

engine == <<args, self, transactions, prices, pc, hedge_portfolio, holidays, returned, walk>>

\* pd.Timestamp.today(): the day the portfolio is built on, a Saturday, so
\* that "yesterday" is the Friday of the week that starts on day 0.
Today == 5

Tickers == { "T", "U" }

\* The closes read_prices returns, in whole currency units: one sequence
\* per ticker, the close of day d at position d + 1.
Markets ==
    { [ t \in Tickers |-> IF t = "T" THEN << 10, 12, 12, 8, 9 >> ELSE << 5, 5, 4, 6, 6 >> ],
      [ t \in Tickers |-> IF t = "T" THEN << 10, 10, 10, 10, 10 >> ELSE << 7, 3, 3, 3, 8 >> ] }

\* Transaction logs of one or two rows.
LogRows ==
    { [date |-> d, ticker |-> t, amount |-> a] :
         d \in 0 .. Today - 2, t \in Tickers, a \in { 0 - 1, 2, 3 } }
Logs == { << r >> : r \in LogRows } \cup { << r1, r2 >> : r1 \in LogRows, r2 \in LogRows }

RECURSIVE concat(_)
concat(frames) == IF frames = << >> THEN << >> ELSE frames[1] \o concat(Tail(frames))

\* Lines 137-145: one row per transaction and day from the transaction's
\* date through yesterday, each with the transaction's amount and ticker.
transactions_long(log) ==
    concat([ i \in 1 .. Len(log) |->
               [ j \in 1 .. Today - log[i].date |->
                   [date |-> log[i].date + j - 1,
                    amount |-> log[i].amount,
                    ticker |-> log[i].ticker] ] ])

RECURSIVE amount_sum(_)
amount_sum(frame) ==
    IF frame = << >> THEN 0 ELSE frame[1].amount + amount_sum(Tail(frame))

\* pivot_table with the first transaction of a date and ticker in place of
\* their sum.
pivot_table_first(long) ==
    LET index == { long[i].date : i \in 1 .. Len(long) }
        columns == { long[i].ticker : i \in 1 .. Len(long) }
        cell(d, t) == SelectSeq(long, LAMBDA r : r.date = d /\ r.ticker = t)
    IN  [ d \in index |-> [ t \in columns |->
            IF cell(d, t) = << >> THEN 0 ELSE cell(d, t)[1].amount ] ]

\* Line 146: pivot_table(index="date", columns="ticker", values="amount",
\* aggfunc="sum", fill_value=0).
pivot_table(long) ==
    LET index == { long[i].date : i \in 1 .. Len(long) }
        columns == { long[i].ticker : i \in 1 .. Len(long) }
    IN  [ d \in index |-> [ t \in columns |->
            amount_sum(SelectSeq(long, LAMBDA r : r.date = d /\ r.ticker = t)) ] ]

get_positions(log) == pivot_table(transactions_long(log))

\* get_prices: the closes of every ticker of the position matrix on the
\* dates of its index.
get_prices(positions, market) ==
    [ d \in DOMAIN positions |-> [ t \in DOMAIN positions[d] |-> market[t][d + 1] ] ]

\* The sum of the row f over the columns S.
RECURSIVE row_sum(_, _)
row_sum(f, S) ==
    IF S = {} THEN 0
    ELSE LET c == CHOOSE x \in S : TRUE IN f[c] + row_sum(f, S \ { c })

\* positions.mul(prices, axis=0).dropna().sum(axis=1)
Capitalisation(positions, frame) ==
    LET quoted == { d \in DOMAIN positions : \A t \in DOMAIN positions[d] : frame[d][t] # NaN }
    IN  [ d \in quoted |->
            row_sum([ t \in DOMAIN positions[d] |-> positions[d][t] * frame[d][t] ],
                    DOMAIN positions[d]) ]

\* The rows of a transaction frame with a date in D.
Dated(log, D) == SelectSeq(log, LAMBDA r : r.date \in D)

\* value_sum with every transaction priced at the close of the first day.
RECURSIVE value_sum_first(_, _)
value_sum_first(frame, quotes) ==
    IF frame = << >> THEN 0
    ELSE frame[1].amount * quotes[Min(DOMAIN quotes)][frame[1].ticker] * (0 - 1)
         + value_sum_first(Tail(frame), quotes)

\* Line 103 summed over a frame: amount * price of the transaction date * -1.
RECURSIVE value_sum(_, _)
value_sum(frame, quotes) ==
    IF frame = << >> THEN 0
    ELSE frame[1].amount * quotes[frame[1].date][frame[1].ticker] * (0 - 1)
         + value_sum(Tail(frame), quotes)

\* _calculate_cash_flow with the value of a transaction credited for a buy.
_calculate_cash_flow_credit(positions, quotes, log, start_cash) ==
    LET initial_cash ==
            IF start_cash # NONE THEN start_cash
            ELSE LET cap == Capitalisation(positions, quotes) IN cap[Min(DOMAIN cap)]
        cash(d) == initial_cash - value_sum(Dated(log, { e \in DOMAIN positions : e <= d }), quotes)
    IN  [positions |-> [ d \in DOMAIN positions |->
                          [ t \in DOMAIN positions[d] \cup { "cash" } |->
                              IF t = "cash" THEN cash(d) ELSE positions[d][t] ] ],
         prices |-> [ d \in DOMAIN quotes |->
                       [ t \in DOMAIN quotes[d] \cup { "cash" } |->
                           IF t = "cash" THEN 1 ELSE quotes[d][t] ] ]]

\* Lines 94-113: the cash column of the positions is the initial cash plus
\* the running sum, over the index, of the transaction values grouped by
\* date; the cash column of the prices is 1.00.
_calculate_cash_flow(positions, quotes, log, start_cash) ==
    LET initial_cash ==
            IF start_cash # NONE THEN start_cash
            ELSE LET cap == Capitalisation(positions, quotes) IN cap[Min(DOMAIN cap)]
        dates == { log[i].date : i \in 1 .. Len(log) }
        cash_transactions == [ d \in dates |-> value_sum(Dated(log, { d }), quotes) ]
        joined == [ d \in DOMAIN positions |->
                      IF d \in dates THEN cash_transactions[d] ELSE 0 ]
        cumsum(d) == row_sum(joined, { e \in DOMAIN positions : e <= d })
    IN  [positions |-> [ d \in DOMAIN positions |->
                          [ t \in DOMAIN positions[d] \cup { "cash" } |->
                              IF t = "cash" THEN initial_cash + cumsum(d) ELSE positions[d][t] ] ],
         prices |-> [ d \in DOMAIN quotes |->
                       [ t \in DOMAIN quotes[d] \cup { "cash" } |->
                           IF t = "cash" THEN 1 ELSE quotes[d][t] ] ]]

\* get_returns: capitalisation.pct_change().fillna(0.0), each return kept
\* as the pair <<change, previous capitalisation>>.
get_returns(capitalisation) ==
    [ d \in DOMAIN capitalisation |->
        IF d = Min(DOMAIN capitalisation) THEN << 0, 1 >>
        ELSE LET prev == Max({ e \in DOMAIN capitalisation : e < d })
             IN  << capitalisation[d] - capitalisation[prev], capitalisation[prev] >> ]

\* Portfolio.__init__ (cumulative_return, a float product of the returns,
\* is not carried).
Portfolio(positions, quotes, log, start_cash) ==
    LET flow == _calculate_cash_flow(positions, quotes, log, start_cash)
        capitalisation == Capitalisation(flow.positions, flow.prices)
    IN  [positions |-> flow.positions,
         prices |-> flow.prices,
         transactions |-> log,
         start_cash |-> start_cash,
         capitalisation |-> capitalisation,
         returns |-> get_returns(capitalisation),
         hedge_cost |-> 0,
         cash |-> 0]

\* series.loc[series.index >= start_date]
Window(series, start_date) ==
    IF start_date = NONE THEN series
    ELSE [ d \in { e \in DOMAIN series : e >= start_date } |-> series[d] ]

\* A metric of the returns against a benchmark, and the None of a field
\* that was not computed.
Metric(name, returns, benchmark_returns) ==
    [computed |-> TRUE, name |-> name,
     rows |-> Cardinality(DOMAIN returns \cap DOMAIN benchmark_returns)]
None == [computed |-> FALSE, name |-> "", rows |-> 0]
NoBaseline == [given |-> FALSE, capitalisation |-> << >>]

\* performance with the cash balance left out of the profit.
performance_nocash(this, baseline, start_date) ==
    LET capitalisation == Window(Capitalisation(this.positions, this.prices), start_date)
        returns == Window(get_returns(this.capitalisation), start_date)
        first == Min(DOMAIN capitalisation)
        last == Max(DOMAIN capitalisation)
        profit == capitalisation[last] - capitalisation[first]
        benchmark_returns == Window(get_returns(baseline.capitalisation), start_date)
        field(name) == IF baseline.given THEN Metric(name, this.returns, benchmark_returns) ELSE None
    IN  [start_date |-> Min(DOMAIN returns), start_value |-> capitalisation[first],
         end_date |-> Max(DOMAIN returns), end_value |-> capitalisation[last],
         profit |-> profit, hedge_cost |-> this.hedge_cost,
         profit_with_hedge |-> profit - this.hedge_cost,
         upside_capture_ratio |-> field("upside_capture_ratio"),
         downside_capture_ratio |-> field("downside_capture_ratio"),
         alpha |-> field("alpha"), beta |-> field("beta"),
         tracking_error |-> field("tracking_error")]

\* Portfolio.performance, lines 33-79, without the float ratios
\* (profitability, volatility, sharpe, sortino, max_drawdown), which are
\* results only.
performance(this, baseline, start_date) ==
    LET capitalisation == Window(Capitalisation(this.positions, this.prices), start_date)
        returns == Window(get_returns(this.capitalisation), start_date)
        first == Min(DOMAIN capitalisation)
        last == Max(DOMAIN capitalisation)
        profit == this.cash + capitalisation[last] - capitalisation[first]
        benchmark_returns == Window(get_returns(baseline.capitalisation), start_date)
        field(name) == IF baseline.given THEN Metric(name, this.returns, benchmark_returns) ELSE None
    IN  [start_date |-> Min(DOMAIN returns), start_value |-> capitalisation[first],
         end_date |-> Max(DOMAIN returns), end_value |-> capitalisation[last],
         profit |-> profit, hedge_cost |-> this.hedge_cost,
         profit_with_hedge |-> profit - this.hedge_cost,
         upside_capture_ratio |-> field("upside_capture_ratio"),
         downside_capture_ratio |-> field("downside_capture_ratio"),
         alpha |-> field("alpha"), beta |-> field("beta"),
         tracking_error |-> field("tracking_error")]

\* A transaction log, a market and a starting cash balance are given, and
\* the arguments performance will be called with.
InitPortfolio ==
    /\ EngineIdle
    /\ ledger \in { [transactions |-> l, market |-> m, start_cash |-> c,
                      baseline |-> b, start_date |-> sd] :
                       l \in Logs, m \in Markets, c \in { NONE, 100 },
                       b \in BOOLEAN, sd \in { NONE, 2 } }
    /\ portfolio = NoBook
    /\ perf = NoPerf
    /\ ppc = "ledger"
    /\ fit = NoFit

\* build_portfolio_from_transactions, or Portfolio(...) with a start_cash.
BuildPortfolio ==
    /\ ppc = "ledger"
    /\ LET positions == get_positions(ledger.transactions)
           quotes == get_prices(positions, ledger.market)
       IN  portfolio' = Portfolio(positions, quotes, ledger.transactions, ledger.start_cash)
    /\ ppc' = "built"
    /\ UNCHANGED <<ledger, perf, fit>>
    /\ UNCHANGED engine

\* Lines 40-41 of apply_strategy: the caller sets hedge_cost and cash.
SetHedge ==
    /\ ppc = "built"
    /\ \E cost \in { 0, 3 }, cash \in { 0, 7 } :
          portfolio' = [portfolio EXCEPT !.hedge_cost = cost, !.cash = cash]
    /\ ppc' = "hedged"
    /\ UNCHANGED <<ledger, perf, fit>>
    /\ UNCHANGED engine

\* portfolio.performance(baseline, start_date), for a start_date not after
\* the last date of the index; the baseline, when given, is a portfolio
\* over the same dates.
Performance ==
    /\ ppc = "hedged"
    /\ LET baseline == IF ledger.baseline
                       THEN [given |-> TRUE, capitalisation |-> portfolio.capitalisation]
                       ELSE NoBaseline
       IN  perf' = performance(portfolio, baseline, ledger.start_date)
    /\ ppc' = "reported"
    /\ UNCHANGED <<ledger, portfolio, fit>>
    /\ UNCHANGED engine

NextPortfolio == BuildPortfolio \/ SetHedge \/ Performance

SpecPortfolio == InitPortfolio /\ [][NextPortfolio]_vars

\* ------------------------------------------------------------- hedged portfolio
\* get_positions for a log read on the day `today`: as transactions_long,
\* one row per transaction and day from its date through today - 1.
transactions_long_on(log, today) ==
    concat([ i \in 1 .. Len(log) |->
               [ j \in 1 .. today - log[i].date |->
                   [date |-> log[i].date + j - 1,
                    amount |-> log[i].amount,
                    ticker |-> log[i].ticker] ] ])

\* The adjusted prices aligned to the index of the positions, as
\* positions.mul(prices, axis=0) aligns them: NaN on a date the price
\* frame does not hold.
Aligned(positions, adjusted_prices) ==
    [ d \in DOMAIN positions |-> [ t \in DOMAIN positions[d] |->
        IF d \in DOMAIN adjusted_prices THEN adjusted_prices[d] ELSE NaN ] ]

\* Lines 38-42 of apply_strategy: the Portfolio of the synthetic log at
\* the adjusted prices, read the day after the last day of the matrix.
HedgePortfolio(hedge) ==
    LET new_positions == pivot_table(transactions_long_on(hedge.transactions, NumDays))
        built == Portfolio(new_positions, Aligned(new_positions, hedge.prices),
                           hedge.transactions, NONE)
    IN  [built EXCEPT !.hedge_cost = hedge.hedge_cost, !.cash = hedge.cash]

\* hedge_performance_summary of pages/Hedging.py: performance() of the
\* portfolio apply_strategy returned, with no benchmark.
HedgedPerformance ==
    /\ pc = "done"
    /\ ppc = "none"
    /\ portfolio' = HedgePortfolio(hedge_portfolio)
    /\ perf' = performance(portfolio', NoBaseline, NONE)
    /\ ppc' = "reported"
    /\ UNCHANGED <<ledger, fit>>
    /\ UNCHANGED engine

NextReport == Next \/ HedgedPerformance
SpecReport == InitRerun /\ [][NextReport]_vars

\* ------------------------------------------------------------- tail fit
\* gpd_risk_estimates_aligned (src/src/core/stats.py). A threshold and an
\* expected shortfall are fractions num / den of a unit of 1e-9, so that
\* 0.2 is 200000000 / 1 and halving doubles den; scale_param, shape_param
\* and var_estimate are whole numbers of which only the sign and, for the
\* shape, the value 1 matter to the control flow.
DEFAULT_THRESHOLD == 200000000
MINIMUM_THRESHOLD == 1

Frac(n, d) == [num |-> n, den |-> d]

\* np.zeros(5), in the order threshold, scale, shape, VaR, ES.
zeros == << Frac(0, 1), 0, 0, 0, Frac(0, 1) >>

RECURSIVE Pow2(_)
Pow2(k) == IF k = 0 THEN 1 ELSE 2 * Pow2(k - 1)

\* threshold > MINIMUM_THRESHOLD
AboveMinimum(threshold) == threshold.num > MINIMUM_THRESHOLD * threshold.den

\* A loss is kept as the number of halvings of 0.2 that first bring the
\* threshold down to it: 0 for a loss of 0.2 or more, 30 for a loss below
\* every threshold the loop can try.
LossSizes == { 0, 3, 30 }
SeriesLengths == { 2, 3, 5 }

\* losses[losses >= threshold]
losses_beyond_threshold(losses, threshold) ==
    { l \in losses : Pow2(l) <= threshold.den }

\* What optimize.minimize(..., method="Nelder-Mead") may come back with:
\* no success, or a scale and a shape of either sign.
Optimized == { [success |-> ok, x |-> << sc, sh >>] :
                  ok \in BOOLEAN, sc \in { 0 - 1, 5 }, sh \in { 0 - 1, 0, 1, 2 } }

\* An element of the list the minimizer returns: False, or a number.
False == [is_false |-> TRUE, value |-> 0]
Float(v) == [is_false |-> FALSE, value |-> v]

\* _gpd_loglikelihood_minimizer_aligned: [False, False] for an empty tail
\* or an optimization that did not succeed.
_gpd_loglikelihood_minimizer_aligned(price_data) ==
    IF price_data = {} THEN { << False, False >> }
    ELSE { IF o.success THEN << Float(o.x[1]), Float(o.x[2]) >> ELSE << False, False >> :
              o \in Optimized }

\* _gpd_var_calculator: 0 without exceedances or with a shape that is not
\* positive, otherwise threshold + scale / shape * (ratio ^ -shape - 1),
\* a real of either sign.
_gpd_var_calculator(shape_param, exceedance_n) ==
    IF exceedance_n > 0 /\ shape_param > 0 THEN { 0 - 3, 0, 3 } ELSE { 0 }

\* _gpd_es_calculator: 0 for a shape of 1, otherwise
\* var / (1 - shape) + (scale - shape * threshold) / (1 - shape).
_gpd_es_calculator(var_estimate, threshold, scale_param, shape_param) ==
    IF 1 - shape_param = 0 THEN Frac(0, 1)
    ELSE Frac((var_estimate + scale_param) * threshold.den - shape_param * threshold.num,
              (1 - shape_param) * threshold.den)

\* The threshold halved whether or not the attempt was valid.
Halved_always(finished, threshold) == Frac(threshold.num, threshold.den * 2)

\* Lines 1563-1564: if not finished: threshold = threshold / 2.
Halved(finished, threshold) ==
    IF ~ finished THEN Frac(threshold.num, threshold.den * 2) ELSE threshold

\* The return series handed to the estimator: its length and its losses.
InitGPD ==
    /\ EngineIdle
    /\ ledger = NoLedger /\ portfolio = NoBook /\ perf = NoPerf /\ ppc = "none"
    /\ \E n \in SeriesLengths, ls \in SUBSET LossSizes :
          /\ Cardinality(ls) <= n
          /\ fit = [at |-> "call", n |-> n, losses |-> ls,
                    threshold |-> Frac(0, 1), finished |-> FALSE,
                    scale_param |-> 0, shape_param |-> 0, var_estimate |-> 0,
                    attempts |-> 0, valid_at |-> Frac(0, 1), result |-> zeros]

\* Lines 1528-1544: fewer than 3 observations return np.zeros(5); otherwise
\* the loop is entered at DEFAULT_THRESHOLD.
GpdEnter ==
    /\ fit.at = "call"
    /\ fit' = IF fit.n < 3
              THEN [fit EXCEPT !.at = "done", !.result = zeros]
              ELSE [fit EXCEPT !.at = "loop", !.threshold = Frac(DEFAULT_THRESHOLD, 1),
                               !.finished = FALSE, !.scale_param = 0, !.shape_param = 0]
    /\ UNCHANGED <<ledger, portfolio, perf, ppc>>
    /\ UNCHANGED engine

\* Lines 1545-1564: one pass through the body of the while loop.
GpdAttempt ==
    /\ fit.at = "loop"
    /\ ~ fit.finished /\ AboveMinimum(fit.threshold)
    /\ LET beyond == losses_beyond_threshold(fit.losses, fit.threshold)
       IN  \E param_result \in _gpd_loglikelihood_minimizer_aligned(beyond) :
              IF param_result[1] # False /\ param_result[2] # False
              THEN \E var_estimate \in _gpd_var_calculator(param_result[2].value,
                                                            Cardinality(beyond)) :
                      LET finished == param_result[2].value > 0 /\ var_estimate > 0
                      IN  fit' = [fit EXCEPT
                                    !.scale_param = param_result[1].value,
                                    !.shape_param = param_result[2].value,
                                    !.var_estimate = var_estimate,
                                    !.finished = finished,
                                    !.threshold = Halved(finished, fit.threshold),
                                    !.attempts = @ + 1,
                                    !.valid_at = IF finished THEN fit.threshold ELSE @]
              ELSE fit' = [fit EXCEPT !.threshold = Halved(FALSE, fit.threshold),
                                      !.attempts = @ + 1]
    /\ UNCHANGED <<ledger, portfolio, perf, ppc>>
    /\ UNCHANGED engine

\* Lines 1565-1578: the loop is left and the result returned.
GpdReturn ==
    /\ fit.at = "loop"
    /\ ~ (~ fit.finished /\ AboveMinimum(fit.threshold))
    /\ fit' = [fit EXCEPT
                 !.at = "done",
                 !.result =
                    IF fit.finished
                    THEN << fit.threshold, fit.scale_param, fit.shape_param, fit.var_estimate,
                            _gpd_es_calculator(fit.var_estimate, fit.threshold,
                                               fit.scale_param, fit.shape_param) >>
                    ELSE zeros]
    /\ UNCHANGED <<ledger, portfolio, perf, ppc>>
    /\ UNCHANGED engine

NextGPD == GpdEnter \/ GpdAttempt \/ GpdReturn

\* The function runs on one thread and every step of it is taken.
SpecGPD == InitGPD /\ [][NextGPD]_vars /\ WF_vars(NextGPD)

\* ------------------------------------------------------------- claims
Options == { put_options[i] : i \in 1 .. Len(put_options) }

\* The last day whose row the walk of the chain has finished with; -1 when
\* the chain has not finished any row, or when the run was aborted.
WalkedThrough(chain) ==
    IF pc \in { "finish", "done" } \/ (pc \in { "seed", "row", "trigger" } /\ chain < ti)
    THEN NumDays
    ELSE IF chain = ti /\ pc = "row" THEN day - 1
    ELSE IF chain = ti /\ pc = "trigger" THEN day
    ELSE 0 - 1

ExpiryEventsOf(option) == { k \in 1 .. Len(expired) : expired[k][1] = option.id }

\* C1: every option whose expire date is a walked date is settled by exactly
\* one expiry event, on its expire date, also when two active options of a
\* chain share the expire date.
C1_SettledOnceOnExpireDate ==
    \A o \in Options :
        (o.expire \in WalkedRows /\ o.expire <= WalkedThrough(o.chain))
            => /\ Cardinality(ExpiryEventsOf(o)) = 1
               /\ \A k \in ExpiryEventsOf(o) : expired[k][2] = o.expire

\* A completed expiry event: lines 64-100 ran without raising.
ExpiryStep == pc = "row" /\ pc' = "trigger"

\* The active options: the one tracked as next to expire and the queued.
ActiveIds ==
    { next_expire_option.id } \cup { all_options[i].id : i \in 1 .. Len(all_options) }

Last(s) == s[Len(s)]

\* C2: an expiry event reduces current_options by the expired amount; a
\* remaining gap opens exactly one option, dated the current day, sized to
\* the gap, in the active set and in the output list; without a gap no
\* option is opened; afterwards current_options >= current_position.
C2_ExpiryCoversGap ==
    [][ ExpiryStep =>
          LET reduced == current_options - next_expire_option.amount
              gap == current_position' - reduced
          IN  /\ IF gap > 0
                 THEN /\ put_options' = Append(put_options, Last(put_options'))
                      /\ Last(put_options').date = day
                      /\ Last(put_options').amount = gap
                      /\ ActiveIds' = (ActiveIds \ { next_expire_option.id })
                                        \cup { Last(put_options').id }
                      /\ current_options' = reduced + gap
                 ELSE /\ put_options' = put_options
                      /\ ActiveIds' = ActiveIds \ { next_expire_option.id }
                      /\ current_options' = reduced
              /\ current_options' >= current_position' ]_vars

\* An expiry event has just settled an option in the money, bought more
\* shares than it covered and opened an option for the gap.
C2_Witness ==
    /\ pc = "trigger"
    /\ Len(put_options) > 1
    /\ Last(put_options).kind = "gap"
    /\ Last(put_options).date = day
    /\ Last(put_options).amount < current_position
    /\ Len(all_options) > 0

\* The close of the row being walked and the option that expires on it.
Close == PriceAt(prices, day)
Due == next_expire_option

\* r is what K * a leaves after buying whole shares at the close p: the
\* remainder of the division, stated without the division.
IsRemainder(r, money, p) == r >= 0 /\ r < p * 100 /\ (money - r) % (p * 100) = 0

\* C3: an option of amount a and strike K that expires at a close p < K
\* buys floor(K*a/p) shares and adds exactly K*a - floor(K*a/p)*p to the
\* cash balance (K=100, a=10, p=80: 12 shares, 40 cash); at p >= K the
\* cash balance is unchanged.
C3_SettlementCash ==
    [][ ExpiryStep =>
          LET money == Due.strike * Due.amount
              r == self'.cash - self.cash
          IN  IF Close * 100 < Due.strike
              THEN /\ IsRemainder(r, money, Close)
                   /\ new_transactions' # new_transactions
                        => Last(new_transactions').amount * Close * 100 = money - r
              ELSE r = 0 ]_vars

\* The scenario of the specification: 10 shares struck at 100 settle at 80.
C3_Witness ==
    /\ pc = "trigger"
    /\ self.cash = 4000
    /\ Last(new_transactions) = Tx(day, 12)
    /\ \E o \in Options : o.amount = 10 /\ o.strike = 10000 /\ o.expire = day
    /\ Close = 80

\* C4: an expiry event emits share transactions iff the close is below the
\* strike and the repurchased count exceeds the covered amount: then a
\* sell of the covered amount dated the day before and a buy of the new
\* count dated the expiry day, and current_position grows by the
\* difference; otherwise nothing is emitted and current_position stays.
C4_SettlementTransactions ==
    [][ ExpiryStep =>
          LET money == Due.strike * Due.amount
              exceeds == money >= (Due.amount + 1) * Close * 100
          IN  IF Close * 100 < Due.strike /\ exceeds
              THEN \E n \in Due.amount + 1 .. 2 * Due.amount :
                      /\ n * Close * 100 <= money
                      /\ money < (n + 1) * Close * 100
                      /\ new_transactions' = new_transactions
                            \o << [date |-> day - 1, ticker |-> Due.ticker,
                                   amount |-> 0 - Due.amount],
                                  [date |-> day, ticker |-> Due.ticker, amount |-> n] >>
                      /\ current_position' = current_position + (n - Due.amount)
              ELSE /\ new_transactions' = new_transactions
                   /\ current_position' = current_position ]_vars

\* One option has settled into more shares, another expired in the money
\* without buying more shares than it covered.
C4_Witness ==
    /\ pc = "trigger"
    /\ Len(new_transactions) >= 4
    /\ new_transactions[Len(new_transactions) - 2].amount < 0
    /\ \E k \in 1 .. Len(expired) :
          /\ expired[k][2] = day
          /\ put_options[expired[k][1]].strike > Close * 100
          /\ put_options[expired[k][1]].amount = 1
          /\ Last(new_transactions).date < day

\* A row reaches the rally check and leaves it.
TriggerStep == AtTrigger /\ pc' \in { "row", "seed", "finish" }

RallyOptionsOf(chain) == { o \in Options : o.kind = "rally" /\ o.chain = chain }

\* Two rally options of one chain are separated by a rise of more than
\* the trigger factor squared between the closes they were opened at.
RallySpacing ==
    \A chain \in 1 .. Len(transactions) :
       \A o1, o2 \in RallyOptionsOf(chain) :
          o1.id < o2.id
             => PriceAt(prices, o2.date) * 10000
                   > PriceAt(prices, o1.date) * self.new_option_trigger * self.new_option_trigger

\* C5: when new_option_trigger is set and the close exceeds
\* current_max_price * new_option_trigger, exactly one option on the whole
\* current_position is opened, appended to the output and pushed to the
\* active set, and current_max_price becomes close * new_option_trigger,
\* so a rally from p re-triggers only above p * trigger^2 (trigger 1.10:
\* 115 sets 126.5 and 120 does not trigger); with no trigger configured,
\* or a close not above the mark, the step opens no option.
C5_RallyOpensOneOption ==
    [][ /\ TriggerStep =>
             LET t == self.new_option_trigger
             IN  IF t # NONE /\ Close * 10000 > current_max_price * t
                 THEN /\ put_options' = Append(put_options, Last(put_options'))
                      /\ Last(put_options').date = day
                      /\ Last(put_options').amount = current_position
                      /\ Last(put_options').id \notin ActiveIds
                      /\ ActiveIds' = ActiveIds \cup { Last(put_options').id }
                      /\ current_max_price' = Close * t
                      /\ ~ (120 * 10000 > current_max_price' * t /\ Close = 115)
                 ELSE /\ put_options' = put_options
                      /\ ActiveIds' = ActiveIds
                      /\ current_max_price' = current_max_price
        /\ RallySpacing' ]_vars

\* A rally from 80 to 100 opened one option; the later close of 120 is
\* above 100 but not above 100 * 1.10^2 and opened none.
C5_Witness ==
    /\ pc = "done"
    /\ \E o \in Options :
          /\ o.kind = "rally"
          /\ RallyOptionsOf(o.chain) = { o }
          /\ o.amount = 10
          /\ \E d \in Rows : d > o.date /\ d < Len(prices)
                /\ PriceAt(prices, d) > PriceAt(prices, o.date)

\* C6: every option expires on the earliest Friday on or after its nominal
\* maturity date (open date + maturity days): a Friday, not before the
\* nominal date, fewer than 7 days after it, and the nominal date itself
\* when that is a Friday.
C6_EarliestFridayOnOrAfter ==
    \A o \in Options :
       LET nominal == o.date + MaturityDays(self.maturity_months)
       IN  /\ weekday(o.expire) = 4
           /\ o.expire >= nominal
           /\ o.expire - nominal < 7
           /\ weekday(nominal) = 4 => o.expire = nominal

ValidConfig(c) ==
    /\ c.relative_strike_price > 0
    /\ c.maturity_months >= 1
    /\ c.new_option_trigger # NONE => c.new_option_trigger >= 100

\* C7: a simulator with relative_strike_price <= 0, maturity_months < 1 or
\* a trigger below 1 is rejected at construction: no constructed
\* simulator carries such a configuration.
C7_MalformedConfigRejected == pc # "new" => ValidConfig(self)

SeedOptions == { o \in Options : o.kind = "seed" }

\* The buy transaction that chain k was started for, as a row of the log.
BuyRows == { i \in 1 .. Len(transactions) : transactions[i].amount > 0 }
BuyRank(i) == Cardinality({ j \in BuyRows : j <= i })
ChainStarted(k) ==
    \/ pc \in { "finish", "done" }
    \/ pc \in { "row", "trigger" } /\ k <= ti
    \/ pc = "seed" /\ k < ti

\* C8 as stated: one chain per ticker, so the ticker has at most one seed
\* option, dated its first buy, whatever the number of its buys.
C8_OneChainPerTicker ==
    /\ Cardinality(SeedOptions) <= 1
    /\ \A o \in SeedOptions : \A i \in BuyRows : o.date <= transactions[i].date

\* C8 amended: one chain per buy transaction. Every buy transaction whose
\* chain has started has exactly one seed option, dated that transaction
\* and sized to its amount, and there are no other seed options: k buys
\* of a ticker start k chains.
C8_OneChainPerBuy ==
    /\ \A i \in BuyRows :
          ChainStarted(BuyRank(i))
             => \E o \in SeedOptions :
                   /\ o.chain = BuyRank(i)
                   /\ o.date = transactions[i].date
                   /\ o.amount = transactions[i].amount
                   /\ \A o2 \in SeedOptions : o2.chain = o.chain => o2 = o
    /\ \A o \in SeedOptions : \E i \in BuyRows : BuyRank(i) = o.chain

\* Two buys of the ticker have each started a chain of their own.
C8_Witness ==
    /\ pc = "done"
    /\ Cardinality(BuyRows) = 2
    /\ Cardinality(SeedOptions) = 2
    /\ \E o \in Options : o.chain = 2 /\ o.kind # "seed"

IsSortedByDate(log) == \A i \in 1 .. Len(log) - 1 : log[i].date <= log[i + 1].date

\* C9: the transaction log of the hedged portfolio is in non-decreasing
\* date order for every input, several buys and no sell included.
C9_LogSortedByDate == pc = "done" => IsSortedByDate(hedge_portfolio.transactions)

Covering(d) == { o \in Options : o.date <= d /\ d < o.expire }

\* C10: the adjusted price of a day is the maximum of the original price
\* and the strikes of the options whose window, open date through the day
\* before expiry, contains the day; an uncovered day keeps the original
\* price, and only days of the original return index are present.
C10_AdjustedPrices ==
    pc = "done" =>
       /\ DOMAIN hedge_portfolio.prices = Rows
       /\ \A d \in Rows :
             hedge_portfolio.prices[d]
                = Max({ PriceAt(prices, d) * 100 } \cup { o.strike : o \in Covering(d) })

\* A covered day is lifted to the strike, and on its expire date an option
\* struck above the close no longer lifts the price.
C10_Witness ==
    /\ pc = "done"
    /\ \E d \in Rows : hedge_portfolio.prices[d] > PriceAt(prices, d) * 100
    /\ \E o \in Options :
          /\ o.expire \in Rows
          /\ o.strike > PriceAt(prices, o.expire) * 100
          /\ hedge_portfolio.prices[o.expire] = PriceAt(prices, o.expire) * 100

\* The sum of amount * premium over a list of options.
RECURSIVE PremiumsPaid(_)
PremiumsPaid(options) ==
    IF options = << >> THEN 0
    ELSE options[1].amount * options[1].premium + PremiumsPaid(Tail(options))

\* The sum of the settlement remainders of a list of expiry events.
RECURSIVE Remainders(_)
Remainders(events) ==
    IF events = << >> THEN 0 ELSE events[1][3] + Remainders(Tail(events))

\* C11: after apply_strategy the returned portfolio's hedge_cost is the sum
\* of amount * premium over all options opened in that run, and its cash
\* is the sum of the settlement remainders accumulated in that run.
C11_CostAndCashOfRun ==
    pc = "done" =>
       /\ hedge_portfolio.hedge_cost = PremiumsPaid(put_options)
       /\ hedge_portfolio.cash = Remainders(expired)

\* C12: runs are independent: every call of apply_strategy on the same
\* simulator object with the same portfolio returns the same options,
\* transactions, adjusted prices, hedge_cost and cash.
C12_RunsIndependent ==
    \A i, j \in 1 .. Len(returned) : returned[i] = returned[j]

\* The net amount of the ticker transacted on the dates D, from the log.
RECURSIVE Net(_, _, _)
Net(log, t, D) ==
    IF log = << >> THEN 0
    ELSE (IF log[1].ticker = t /\ log[1].date \in D THEN log[1].amount ELSE 0)
         + Net(Tail(log), t, D)

Built == ppc \in { "built", "hedged", "reported" }
Shares == DOMAIN portfolio.positions[Today - 1] \ { "cash" }

\* C13: in the position matrix, the position of every ticker on every day
\* after the first is the position of the day before plus the net amount
\* transacted on the day (on the first day, that net amount), and the
\* position at a transaction date is the sum of the same-ticker amounts
\* dated on or before it, same-day transactions summed.
C13_PositionRecurrence ==
    Built =>
       LET index == DOMAIN portfolio.positions
           log == ledger.transactions
       IN  /\ \A d \in index : \A t \in Shares :
                 IF d = Min(index)
                 THEN portfolio.positions[d][t] = Net(log, t, { d })
                 ELSE /\ d - 1 \in index
                      /\ portfolio.positions[d][t]
                            = portfolio.positions[d - 1][t] + Net(log, t, { d })
           /\ \A i \in 1 .. Len(log) :
                 /\ log[i].date \in index
                 /\ log[i].ticker \in Shares
                 /\ portfolio.positions[log[i].date][log[i].ticker]
                       = Net(log, log[i].ticker, 0 .. log[i].date)

\* Two transactions of one ticker on one day are summed, and the position
\* of the days before differs.
C13_Witness ==
    /\ Built
    /\ Len(ledger.transactions) = 2
    /\ LET r1 == ledger.transactions[1]
           r2 == ledger.transactions[2]
       IN  /\ r1.date = r2.date /\ r1.ticker = r2.ticker /\ r1.date > 0
           /\ r1.amount = 3 /\ r2.amount = 0 - 1
           /\ portfolio.positions[r1.date][r1.ticker] = 2

\* What the transactions of the ticker dated in D cost at the close of
\* their own date, read from the market.
RECURSIVE Spent(_, _, _)
Spent(log, market, D) ==
    IF log = << >> THEN 0
    ELSE (IF log[1].date \in D
          THEN log[1].amount * market[log[1].ticker][log[1].date + 1] ELSE 0)
         + Spent(Tail(log), market, D)

\* The start_cash given, or else the value of the shares held on the
\* first day of the index at the closes of that day.
InitialCash ==
    IF ledger.start_cash # NONE THEN ledger.start_cash
    ELSE LET first == Min(DOMAIN portfolio.positions)
         IN  row_sum([ t \in Shares |->
                         portfolio.positions[first][t] * ledger.market[t][first + 1] ],
                     Shares)

\* C14: in a constructed Portfolio the cash position of day d is
\* initial_cash minus the sum of amount * price(transaction date, ticker)
\* over the transactions dated on or before d, initial_cash being
\* start_cash when given and else the capitalisation of the first row; a
\* buy lowers the cash, a sell raises it, and the cash price is 1 on
\* every day.
C14_CashPosition ==
    Built =>
       LET index == DOMAIN portfolio.positions
           log == ledger.transactions
           cash(d) == portfolio.positions[d]["cash"]
       IN  /\ \A d \in index :
                 /\ cash(d) = InitialCash - Spent(log, ledger.market, 0 .. d)
                 /\ portfolio.prices[d]["cash"] = 1
           /\ \A d \in index \ { Min(index) } :
                 /\ Net(log, "T", { d }) > 0 /\ Net(log, "U", { d }) = 0 => cash(d) < cash(d - 1)
                 /\ Net(log, "T", { d }) < 0 /\ Net(log, "U", { d }) = 0 => cash(d) > cash(d - 1)

\* No start_cash: a buy on the first day leaves no cash, and a later sale
\* of one share at another close raises the cash by that close.
C14_Witness ==
    /\ Built
    /\ ledger.start_cash = NONE
    /\ Len(ledger.transactions) = 2
    /\ LET r1 == ledger.transactions[1]
           r2 == ledger.transactions[2]
       IN  /\ r1.ticker = "T" /\ r2.ticker = "T" /\ r1.amount = 3 /\ r2.amount = 0 - 1
           /\ r1.date = 0 /\ r2.date = 3
           /\ ledger.market["T"] = << 10, 12, 12, 8, 9 >>
           /\ portfolio.positions[0]["cash"] = 0
           /\ portfolio.positions[2]["cash"] = 0
           /\ portfolio.positions[3]["cash"] = 8
           /\ portfolio.positions[4]["cash"] = 8

\* A call of performance() that returns.
PerformanceStep == ppc = "hedged" /\ ppc' = "reported"

\* The value of the shares and the cash held on day d at the closes of
\* the market, from the position matrix.
Worth(d) ==
    portfolio.positions[d]["cash"]
       + row_sum([ t \in Shares |-> portfolio.positions[d][t] * ledger.market[t][d + 1] ],
                 Shares)

BaselineFields ==
    { "upside_capture_ratio", "downside_capture_ratio", "alpha", "beta", "tracking_error" }

\* C15: performance() reports profit = cash + (last capitalisation - first
\* capitalisation) over the evaluated window and profit_with_hedge =
\* profit - hedge_cost; upside_capture_ratio, downside_capture_ratio,
\* alpha, beta and tracking_error are None when no baseline is supplied
\* and computed only when one is; no field of the portfolio changes.
C15_PerformanceReport ==
    [][ PerformanceStep =>
          LET index == DOMAIN portfolio.positions
              first == IF ledger.start_date = NONE THEN Min(index)
                       ELSE Min({ d \in index : d >= ledger.start_date })
              last == Max(index)
          IN  /\ perf'.profit = portfolio.cash + (Worth(last) - Worth(first))
              /\ perf'.profit_with_hedge = perf'.profit - portfolio.hedge_cost
              /\ \A f \in BaselineFields :
                    /\ ~ ledger.baseline => perf'[f] = None
                    /\ perf'[f].computed <=> ledger.baseline
              /\ portfolio' = portfolio ]_vars

\* performance() was called with a baseline and a start date on a
\* portfolio with settlement cash and a hedge cost, and the window, which
\* starts after the first transaction, gained value.
C15_Witness ==
    /\ ppc = "reported"
    /\ ledger.baseline /\ ledger.start_date = 2
    /\ Min(DOMAIN portfolio.positions) = 0
    /\ portfolio.cash = 7 /\ portfolio.hedge_cost = 3
    /\ perf.profit > 7
    /\ perf.profit_with_hedge = perf.profit - 3
    /\ perf.alpha.computed

\* The business days of the span of the price matrix.
BusinessDays == { d \in 0 .. NumDays - 1 : weekday(d) < 5 }

\* C16: a price missing for a date of the walked range makes
\* apply_strategy fail: a run that completes had a price on every business
\* day of the span, and it leaves no option unsettled whose expire date
\* lies in the span without a price.
C16_MissingPriceIsFatal ==
    pc = "done" =>
       /\ \A d \in BusinessDays : HasQuote(d)
       /\ \A o \in Options :
             (o.expire \in BusinessDays /\ ~ HasQuote(o.expire)) => ExpiryEventsOf(o) # {}

\* C17: every option created (for a buy transaction, for a coverage gap
\* at an expiry, for a rally) has a strictly positive amount.
C17_PositiveAmount == \A o \in Options : o.amount > 0

\* An expiry left nothing to cover, because a rally option already covers
\* the position, and opened no option; options of all three kinds exist.
C17_Witness ==
    /\ pc = "trigger"
    /\ \E k \in 1 .. Len(expired) : expired[k][2] = day
    /\ current_options = current_position
    /\ \A o \in Options : o.date # day
    /\ \E o \in Options : o.kind = "rally"
    /\ \E o \in Options : o.kind = "gap"
    /\ \E o \in Options : o.kind = "seed"

\* The most passes the loop can make: the number of halvings that first
\* bring 0.2 down to 1e-9 or below (0.2 / 2^k is above 1e-9 for k <= 27).
MaxAttempts ==
    CHOOSE k \in 1 .. 30 :
       /\ DEFAULT_THRESHOLD <= MINIMUM_THRESHOLD * Pow2(k)
       /\ DEFAULT_THRESHOLD > MINIMUM_THRESHOLD * Pow2(k - 1)

TailFitSafe ==
    fit.at # "call" =>
       /\ fit.attempts <= MaxAttempts
       /\ fit.at = "loop" /\ ~ fit.finished
             => fit.threshold = Frac(DEFAULT_THRESHOLD, Pow2(fit.attempts))
       /\ fit.finished
             => /\ fit.threshold = Frac(DEFAULT_THRESHOLD, Pow2(fit.attempts - 1))
                /\ fit.threshold = fit.valid_at
                /\ fit.shape_param > 0 /\ fit.var_estimate > 0
       /\ fit.at = "done"
             => /\ fit.finished => fit.result[1] = fit.valid_at /\ fit.result # zeros
                /\ ~ fit.finished => fit.result = zeros
                /\ fit.n < 3 => fit.result = zeros /\ fit.attempts = 0
                /\ (fit.n >= 3 /\ ~ fit.finished)
                      => /\ ~ AboveMinimum(fit.threshold)
                         /\ fit.attempts = MaxAttempts

\* C18: the tail fit loop starts at threshold 0.2 and halves it after every
\* attempt that is not a successful fit with shape > 0 and VaR > 0; it
\* always terminates, after at most 28 attempts, when the threshold is no
\* longer above 1e-9; it returns the threshold of the first valid fit
\* when there is one, and the all-zero result when no attempt is valid or
\* the series has fewer than 3 observations.
C18_TailFitLoop == [] TailFitSafe /\ <> (fit.at = "done")

\* Three attempts failed or were invalid, the fourth was valid, and the
\* threshold returned is 0.2 / 8.
C18_Witness ==
    /\ fit.at = "done"
    /\ fit.finished
    /\ fit.attempts = 4
    /\ fit.result[1] = Frac(DEFAULT_THRESHOLD, 8)
    /\ fit.result[3] = 2

Walking == pc \in { "row", "trigger" }
Queued == { all_options[i] : i \in 1 .. Len(all_options) }

\* C19: at every point of a chain's walk the option tracked as next to
\* expire has the minimum expire date among the active options of the
\* chain, the tracked option and the queued ones, after any sequence of
\* expiry events and rally triggers; current_min_expire is that date.
C19_TrackedExpiresFirst ==
    Walking =>
       /\ \A o \in Queued : next_expire_option.expire <= o.expire
       /\ current_min_expire = next_expire_option.expire

\* After an expiry event and a rally trigger an option that expires later
\* than the tracked one waits in the queue.
C19_Witness ==
    /\ Walking
    /\ expired # << >>
    /\ \E o \in Queued : o.kind = "rally" /\ o.expire > next_expire_option.expire
    /\ next_expire_option.kind = "gap"

\* C20: whenever the engine takes the next option from the active set
\* after an expiry event the set is not empty, so the blocking pop never
\* waits on an empty queue, and the walk of every chain runs to the last
\* price date and terminates: get_put_options is never left waiting in
\* PriorityQueue.get nor by an exception in the middle of a walk, whose
\* rows are finitely many and each advance it.
C20_PopNeverWaits == pc \notin { "blocked", "TypeError" }

\* The date of the buy transaction a chain was started for.
SeedDate(chain) == buy_transactions[chain].date

\* C21: the walk of a chain visits only dates strictly after the chain's
\* seed date, so every gap or rally option of the chain is opened strictly
\* later than the seed date, never on a day on which the shares of the
\* chain were not yet bought.
C21_WalkAfterSeed ==
    /\ Walking => day > SeedDate(ti)
    /\ \A o \in Options : o.kind # "seed" => o.date > SeedDate(o.chain)

\* The options of the active set: the tracked one and the queued ones.
Active == { next_expire_option } \cup Queued

\* A rally is about to queue an option dated today while an active option
\* has the same date, and so the same queue priority.
EqualPriorityPut ==
    /\ AtTrigger
    /\ Rally(self.new_option_trigger, current_max_price, PriceAt(prices, day))
    /\ \E o \in Active : o.date = day

\* C22: when two options of equal queue priority meet in the active set,
\* a coverage-gap option and a rally option opened on the same day for
\* example, inserting them succeeds without error and the run goes on
\* with both in the active set.
C22_EqualPriorityInserts ==
    [][ EqualPriorityPut =>
          /\ pc' # "TypeError"
          /\ Cardinality({ o.id : o \in Active' }) = Cardinality({ o.id : o \in Active }) + 1 ]_vars

\* The sum of the amounts of a sequence of options.
RECURSIVE AmountOf(_)
AmountOf(options) ==
    IF options = << >> THEN 0 ELSE options[1].amount + AmountOf(Tail(options))

\* The walk of a chain stands between two rows, or behind its last row.
DayEnded == pc = "row" \/ (pc \in { "seed", "finish" } /\ put_options # << >>)

\* C23: at the end of every walked day current_options is the sum of the
\* amounts of the active options of the chain, the tracked option and
\* every queued one, after any sequence of expiry events and rallies.
C23_OptionsCounter ==
    DayEnded => current_options = next_expire_option.amount + AmountOf(all_options)

\* A day ended after an expiry and a rally with an option in the queue.
C23_Witness ==
    /\ pc = "row"
    /\ expired # << >>
    /\ all_options # << >>
    /\ \E o \in Options : o.kind = "rally"
    /\ \E o \in Options : o.kind = "gap"
    /\ current_options > current_position

\* The last row the walk has finished with.
LastDay == IF pc = "row" THEN Max({ d \in rows : d < day }) ELSE day

\* The active options that expire after the day d, in the order tracked
\* option, queued options.
LiveAfter(d) == SelectSeq(<< next_expire_option >> \o all_options, LAMBDA o : o.expire > d)

\* C24: at the end of every walked day d the amounts of the active
\* options that expire strictly later than d add up to at least
\* current_position: the position is never left covered only by an option
\* whose expire date has passed.
C24_CoverNotExpired ==
    (DayEnded /\ (pc = "row" => \E d \in rows : d < day))
       => AmountOf(LiveAfter(LastDay)) >= current_position

\* C25: with new_option_trigger None, at the end of every walked day the
\* chain has exactly one active option: the queue is empty, the tracked
\* option's amount is current_position, and current_options equals
\* current_position.
C25_OneActiveOption ==
    (DayEnded /\ self.new_option_trigger = NONE) =>
       /\ all_options = << >>
       /\ next_expire_option.amount = current_position
       /\ current_options = current_position

\* Without a trigger an option settled into more shares and the option
\* that replaced it covers the grown position alone.
C25_Witness ==
    /\ pc = "row"
    /\ self.new_option_trigger = NONE
    /\ expired # << >>
    /\ current_position > transactions[1].amount
    /\ next_expire_option.kind = "gap"
    /\ next_expire_option.amount = current_position

\* An expiry event in the money that has completed.
InTheMoneyStep == ExpiryStep /\ Close * 100 < Due.strike

\* C26: an in-the-money expiry of an option on a shares with strike K at a
\* close p, 0 < p < K, leaves a share count n >= a and a cash remainder r
\* with 0 <= r < p and r + (n - a) * p = (K - p) * a: the cash credited and
\* the value of the extra shares add up to the intrinsic payoff of the
\* put, whether or not settlement transactions are emitted.
C26_IntrinsicPayoff ==
    [][ InTheMoneyStep =>
          LET p == Close * 100
              r == self'.cash - self.cash
              extra == current_position' - current_position
          IN  /\ extra >= 0
              /\ r >= 0 /\ r < p
              /\ r + extra * p = (Due.strike - p) * Due.amount
              /\ (new_transactions' = new_transactions) <=> (extra = 0) ]_vars

\* An option on one share struck at 100 expired at 80: no share could be
\* added, no transaction was emitted and 20.00 went to the cash balance.
C26_Witness ==
    /\ pc = "trigger"
    /\ \E k \in 1 .. Len(expired) :
          /\ expired[k][2] = day
          /\ expired[k][3] = 2000
          /\ put_options[expired[k][1]].amount = 1
          /\ put_options[expired[k][1]].strike = 10000
    /\ Close = 80
    /\ Last(new_transactions).date < day - 1

\* The value of the shares of the reported portfolio on day d.
ShareValue(d) == portfolio.positions[d][Ticker] * portfolio.prices[d][Ticker]

\* A settlement that emitted transactions did so at a close of the day
\* before that was not above the strike.
SettledAtStrike ==
    \A k \in 1 .. Len(expired) :
       LET o == put_options[expired[k][1]]
       IN  /\ HasQuote(expired[k][2] - 1)
           /\ PriceAt(prices, expired[k][2] - 1) * 100 <= o.strike

\* C27: for one buy transaction, relative_strike_price = 1, no trigger and
\* a close of the day before expiry not above the strike, the cash
\* remainder of a settlement enters the reported profit of the hedged
\* portfolio exactly once: the profit is the change in the value of the
\* shares plus the remainders, which are not counted both in the cash
\* column the synthetic sell and buy produce and in the cash scalar that
\* performance() adds.
C27_RemainderCountedOnce ==
    (/\ ppc = "reported"
     /\ Len(transactions) = 1
     /\ self.relative_strike_price = 100 /\ self.new_option_trigger = NONE
     /\ SettledAtStrike)
       => LET first == Min(DOMAIN portfolio.capitalisation)
              last == Max(DOMAIN portfolio.capitalisation)
          IN  perf.profit = ShareValue(last) - ShareValue(first) + Remainders(expired)

\* What the shares held on day `held` are worth at the closes of day d.
HeldWorth(held, d) ==
    row_sum([ t \in Shares |-> portfolio.positions[held][t] * ledger.market[t][d + 1] ],
            Shares)

\* C28: in a Portfolio built without start_cash and with a price for every
\* day, the cash position of the first day is 0 and a transaction changes
\* no value on its day: on every later day d the capitalisation is the
\* value of the positions of day d - 1 at the prices of day d plus the
\* cash of day d - 1, so it moves with the prices only.
C28_ValueNeutral ==
    (Built /\ ledger.start_cash = NONE) =>
       LET index == DOMAIN portfolio.positions
           first == Min(index)
       IN  /\ DOMAIN portfolio.capitalisation = index
           /\ portfolio.positions[first]["cash"] = 0
           /\ \A d \in index \ { first } :
                 portfolio.capitalisation[d]
                    = HeldWorth(d - 1, d) + portfolio.positions[d - 1]["cash"]

\* Shares of one ticker were bought on one day and shares of the other on
\* a later day at a close that differs from the close of the first day.
C28_Witness ==
    /\ Built
    /\ ledger.start_cash = NONE
    /\ Len(ledger.transactions) = 2
    /\ LET r1 == ledger.transactions[1]
           r2 == ledger.transactions[2]
       IN  /\ r1.ticker = "T" /\ r1.date = 1 /\ r1.amount = 2
           /\ r2.ticker = "U" /\ r2.date = 3 /\ r2.amount = 3
           /\ ledger.market["U"] = << 5, 5, 4, 6, 6 >>
           /\ portfolio.positions[3]["cash"] = 0 - 18
           /\ portfolio.capitalisation[3] = 16
           /\ portfolio.capitalisation[2] = 24

\* Both runs have ended: the first on the buys alone, the second on the
\* same buys with sell rows.
BothRuns == pc = "done" /\ Len(returned) = 2

\* The second of `runs` opened the same options, paid and kept the same
\* money and adjusted the same prices as the first, and its log is the log
\* of the first with the rows `sells` put in by date.
SameBesideSells(runs, sells) ==
    /\ runs[2].options = runs[1].options
    /\ [runs[2].portfolio EXCEPT !.transactions = << >>]
          = [runs[1].portfolio EXCEPT !.transactions = << >>]
    /\ runs[2].portfolio.transactions
          = sort_values(runs[1].portfolio.transactions \o sells)

RebuiltShares(log) ==
    pivot_table(transactions_long_on(log, NumDays))[NumDays - 1][Ticker]

\* C30: the amounts of the transactions a chain has emitted add up to its
\* current_position at every point of its walk: the seed step logs the
\* whole position, every later step changes the log's total by what it
\* adds to current_position, and the share count rebuilt from the returned
\* log is the total of the synthetic log (with the sells of the source),
\* which for a log of one buy is the final current_position.
C30_LogRebuildsPosition ==
    [][ /\ (pc = "seed" /\ pc' \in { "row", "seed", "finish" })
              => amount_sum(new_transactions') - amount_sum(new_transactions)
                    = current_position'
        /\ pc \in { "row", "trigger" }
              => amount_sum(new_transactions') - amount_sum(new_transactions)
                    = current_position' - current_position
        /\ pc' = "done"
              => /\ RebuiltShares(hedge_portfolio'.transactions)
                       = amount_sum(new_transactions') + amount_sum(sell_transactions)
                 /\ Len(buy_transactions) = 1
                       => amount_sum(new_transactions') = current_position' ]_vars

\* A run of one buy has ended after a settlement that bought more shares
\* than the option covered: the log holds the seed buy, the sell and the
\* buy, and the matrix rebuilt from it ends at the chain's position.
C30_Witness ==
    /\ pc = "done"
    /\ transactions = OneBuy
    /\ Len(new_transactions) = 3
    /\ current_position = 12
    /\ RebuiltShares(hedge_portfolio.transactions) = 12

====
